---- MODULE Spec2Model ----
(***************************************************************************)
(* Model of package cached (src/cached.go, lines 1-160): a process-wide    *)
(* memoizing function cache with in-flight de-duplication, a background    *)
(* expiry sweeper and an oldest-first capacity limit.                      *)
(*                                                                         *)
(* Every region of the wrapped function between cached.m.Lock() and        *)
(* cached.m.Unlock() is one action.  A region that can block on a per-key  *)
(* mutex while it holds cached.m is split at the blocking point, and the   *)
(* holder of cached.m is kept in the variable m.  The statements at lines  *)
(* 112 and 113 run without cached.m and are actions of their own.          *)
(*                                                                         *)
(* Time is counted in sweep periods.  Lock-protected regions take no time: *)
(* the clock advances only while every caller is outside the wrapped       *)
(* function, inside the underlying function, or suspended in Cond.Wait,    *)
(* and time.Sleep(d) lasts exactly d.                                      *)
(***************************************************************************)
EXTENDS Integers, Sequences, FiniteSets, TLC

\* ------------------------------------------------------------------ bounds
NumCallers == 3
MaxCalls == 3
MaxTime == 3
MaxPanics == 1
NumWrappers == 2

\* --------------------------------------------------- program configuration
\* cached.go:21, 23, 25 (scaled: the tests set them to small values too)
MaxCacheSize == 2
CacheExpiryTime == 1
CacheExpirySleepTime == 1

Callers == 1..NumCallers

\* The functions wrapped with NewCachedFunction in the process: every
\* wrapper is a closure over its own f and over the one package variable
\* cached (line 28).
Wrappers == 1..NumWrappers

\* ------------------------------------------------------- argument tuples
IntArg(n) == [int |-> n]
StrArg(s) == [str |-> s]

\* The argument tuples the callers draw from: the tuples of the spec's
\* scenario and one tuple of another type that prints like the first.
ArgTuples ==
    { <<IntArg(1), IntArg(2)>>,
      <<StrArg("1 2")>>,
      <<IntArg(3), IntArg(4)>>,
      <<IntArg(5), IntArg(6)>> }

\* What a call is made with: the first wrapper with every tuple, the others
\* with the first tuple.
Inputs ==
    { i \in Wrappers \X ArgTuples : i[1] = 1 \/ i[2] = <<IntArg(1), IntArg(2)>> }

\* Inputs that differ in nothing the program looks at are tried in one
\* order only: the second of such a pair is called with after the first.
After(w, a) ==
    IF w > 1 THEN {<<w - 1, a>>}
    ELSE IF a = <<StrArg("1 2")>> THEN {<<1, <<IntArg(1), IntArg(2)>>>>}
    ELSE IF a = <<IntArg(5), IntArg(6)>> THEN {<<1, <<IntArg(3), IntArg(4)>>>>}
    ELSE {}

\* fmt's %v of one operand: decimal digits of an int, a string as it is.
FormatOperand(x) ==
    IF "int" \in DOMAIN x THEN ToString(x.int) ELSE x.str

RECURSIVE JoinOperands(_)
JoinOperands(a) ==
    IF Len(a) = 0 THEN ""
    ELSE IF Len(a) = 1 THEN FormatOperand(a[1])
    ELSE FormatOperand(a[1]) \o " " \o JoinOperands(Tail(a))

\* key := fmt.Sprintf("%v", args): a slice prints as [e1 e2 ...]
Sprintf(a) == "[" \o JoinOperands(a) \o "]"

Keys == { Sprintf(a) : a \in ArgTuples }

\* ------------------------------------------------------------------ values
\* What the underlying function of wrapper w returns for args on the n-th
\* run for that key (the tests' f counts its calls, so two runs are told
\* apart).
Value(w, a, n) == [fn |-> w, args |-> a, gen |-> n]

\* The untyped nil of "return nil" (line 124).
Nil == [fn |-> 0, args |-> <<>>, gen |-> 0]

\* A caller that has not returned yet.
NoResult == [fn |-> 0, args |-> <<>>, gen |-> -1]
\* The call ended with the panic of the underlying function: no value.
Panicked == [fn |-> 0, args |-> <<>>, gen |-> -2]

\* var oldestKey string; var oldestTime time.Time (lines 82-83): the zero
\* values, which they keep when nothing is scanned.
NoEviction == [key |-> "", time |-> -1]

\* ------------------------------------------------------------------- state
VARIABLES
    cache,      \* fc.cache: key -> result
    entry,      \* fc.entry: key -> time of insertion
    inflight,   \* fc.inflight: the keys that have a marker
    cond,       \* fc.cond / fc.mutex: key -> the Cond (and its Mutex L) made last
    waits,      \* fc.waits: key -> number of registrations
    m,          \* fc.m: the caller that holds the store lock, if one does
    locked,     \* the per-key mutexes that are locked (a Go mutex has no owner)
    pc,         \* each caller's position in the wrapped function
    args,       \* each caller's argument tuple
    fn,         \* the f of the wrapper each caller has called
    key,        \* each caller's local variable key
    oldest,     \* each caller's local variables oldestKey and oldestTime
    result,     \* the computer's local variable result
    ret,        \* what the caller's last call returned
    waitOn,     \* the Cond whose notify list the caller is on
    notified,   \* the caller was released by a Broadcast
    pcS,        \* the sweeper goroutine's position
    wakeAt,     \* when the sweeper's time.Sleep ends
    cancelled,  \* ctx.Err() != nil
    now,        \* the clock
    crashed,    \* the runtime stopped the process with a fatal error
    calls,      \* history: runs of the underlying function per key
    started,    \* history: calls of the wrapped function begun
    ran,        \* history: runs of the underlying function in the caller's call
    seen,       \* history: the result stored for the caller's key when its call began
    lost,       \* history: others removed the caller's key during its call
    used,       \* history: the argument tuples called with so far
    solo,       \* history: the caller whose call no other call has overlapped
    panics      \* history: runs of the underlying function that panicked

shared == <<cache, entry, inflight, cond, waits, m, locked>>
local == <<pc, args, fn, key, oldest, result, ret, waitOn, notified>>
sweeper == <<pcS, wakeAt, cancelled>>
history == <<calls, started, ran, seen, lost, used, solo, panics>>
vars == <<shared, local, sweeper, now, crashed, history>>

\* The positions at which a caller is outside every lock-protected region
\* and may stay for any length of time.
TimedPcs == {"out", "calling", "suspended"}

\* The caller is inside the wrapped function.
Active(c) == pc[c] \notin {"out", "done"}

\* The process is alive, and no caller is in the act of returning.
Running == ~crashed /\ \A c \in Callers : pc[c] # "done"

\* The Conds (with their mutexes) still referred to; a new one is another.
Objects == 1..(Cardinality(Keys) + NumCallers + 1)
InUse ==
    {cond[k] : k \in DOMAIN cond} \cup {waitOn[c] : c \in Callers} \cup locked
NewObject == CHOOSE x \in Objects \ InUse : \A y \in Objects \ InUse : x <= y

\* delete(map, k) for every k in K
Without(f, K) == [k \in DOMAIN f \ K |-> f[k]]

\* map[k] = v
Put(f, k, v) == [j \in DOMAIN f \cup {k} |-> IF j = k THEN v ELSE f[j]]

\* NewFunctionCache, lines 43-50, and the start of its goroutine (line 55).
Init ==
    /\ cache = <<>>
    /\ entry = <<>>
    /\ inflight = {}
    /\ cond = <<>>
    /\ waits = [k \in Keys |-> 0]
    /\ m = {}
    /\ locked = {}
    /\ pc = [c \in Callers |-> "out"]
    /\ args = [c \in Callers |-> <<>>]
    /\ fn = [c \in Callers |-> 0]
    /\ key = [c \in Callers |-> ""]
    /\ oldest = [c \in Callers |-> NoEviction]
    /\ result = [c \in Callers |-> NoResult]
    /\ ret = [c \in Callers |-> NoResult]
    /\ waitOn = [c \in Callers |-> 0]
    /\ notified = [c \in Callers |-> FALSE]
    /\ pcS = "sleeping"
    /\ wakeAt = CacheExpirySleepTime
    /\ cancelled = FALSE
    /\ now = 0
    /\ crashed = FALSE
    /\ calls = [k \in Keys |-> 0]
    /\ started = 0
    /\ ran = [c \in Callers |-> 0]
    /\ seen = [c \in Callers |-> NoResult]
    /\ lost = [c \in Callers |-> FALSE]
    /\ used = {}
    /\ solo = 0
    /\ panics = 0

\* ------------------------------------------------------ the wrapped function
\* "return v"
Return(c, v) ==
    /\ pc' = [pc EXCEPT ![c] = "done"]
    /\ ret' = [ret EXCEPT ![c] = v]
    /\ result' = [result EXCEPT ![c] = NoResult]
    /\ waitOn' = [waitOn EXCEPT ![c] = 0]
    /\ UNCHANGED history

\* Lines 80-89: does the capacity limit apply?
Full(store) == Cardinality(DOMAIN store) >= MaxCacheSize

\* The scan of lines 84-89 with t.After in the place of t.Before: it ends
\* on an entry stored last.
NewestKeys(e) ==
    IF DOMAIN e = {} THEN {""}
    ELSE {k \in DOMAIN e : \A j \in DOMAIN e : ~(e[j] > e[k])}

\* Lines 82-89: the scan keeps a key whose time no other key's time is
\* before; which of several such keys it keeps depends on the map's
\* iteration order.  An empty table leaves oldestKey at "".
OldestKeys(e) ==
    IF DOMAIN e = {} THEN {""}
    ELSE {k \in DOMAIN e : \A j \in DOMAIN e : ~(e[j] < e[k])}

\* The others whose key is in K and whose call is under way lose their entry.
Lose(c, K) ==
    [d \in Callers |-> lost[d] \/ (d # c /\ Active(d) /\ key[d] \in K)]

\* Lines 76-94: the call begins; key; Feature 4, capacity limit.
Capacity(c, w, a) ==
    LET k == Sprintf(a) IN
    /\ Running
    /\ pc[c] = "out"
    /\ \A d \in Callers : d < c => pc[d] # "out"
    /\ started < MaxCalls
    /\ After(w, a) \subseteq used
    /\ m = {}
    /\ IF Full(cache)
       THEN \E oldestKey \in OldestKeys(entry) :
              /\ cache' = Without(cache, {oldestKey})
              /\ entry' = Without(entry, {oldestKey})
              /\ oldest' = [oldest EXCEPT ![c] =
                               IF oldestKey \in DOMAIN entry
                               THEN [key |-> oldestKey, time |-> entry[oldestKey]]
                               ELSE NoEviction]
              /\ lost' = Lose(c, {oldestKey})
       ELSE UNCHANGED <<cache, entry, oldest, lost>>
    /\ pc' = [pc EXCEPT ![c] = "memo"]
    /\ args' = [args EXCEPT ![c] = a]
    /\ fn' = [fn EXCEPT ![c] = w]
    /\ key' = [key EXCEPT ![c] = k]
    /\ started' = started + 1
    /\ used' = used \cup {<<w, a>>}
    /\ solo' = IF \A d \in Callers \ {c} : pc[d] = "out" THEN c ELSE 0
    /\ seen' = [seen EXCEPT ![c] = IF k \in DOMAIN cache THEN cache[k] ELSE NoResult]
    /\ UNCHANGED <<inflight, cond, waits, m, locked, result, ret, waitOn,
                   notified, sweeper, now, crashed, calls, ran, panics>>

\* Lines 96-103 with a lookup that does not tell the keys apart: any
\* stored result is a hit.
MemoizationAnyKey(c) ==
    /\ Running
    /\ pc[c] = "memo"
    /\ m = {}
    /\ IF DOMAIN cache # {}
       THEN \E k \in DOMAIN cache : Return(c, cache[k])
       ELSE /\ pc' = [pc EXCEPT ![c] = "check"]
            /\ UNCHANGED <<ret, result, waitOn, history>>
    /\ UNCHANGED <<shared, args, fn, key, oldest, notified, sweeper, now, crashed>>

\* Lines 96-103 with a test of the entry's age on the read: an entry older
\* than CacheExpiryTime counts as a miss.
MemoizationLazyExpiry(c) ==
    /\ Running
    /\ pc[c] = "memo"
    /\ m = {}
    /\ IF key[c] \in DOMAIN cache /\ now - entry[key[c]] <= CacheExpiryTime
       THEN Return(c, cache[key[c]])
       ELSE /\ pc' = [pc EXCEPT ![c] = "check"]
            /\ UNCHANGED <<ret, result, waitOn, history>>
    /\ UNCHANGED <<shared, args, fn, key, oldest, notified, sweeper, now, crashed>>

\* Lines 96-103: Feature 1, memoization.
Memoization(c) ==
    /\ Running
    /\ pc[c] = "memo"
    /\ m = {}
    /\ IF key[c] \in DOMAIN cache
       THEN Return(c, cache[key[c]])
       ELSE /\ pc' = [pc EXCEPT ![c] = "check"]
            /\ UNCHANGED <<ret, result, waitOn, history>>
    /\ UNCHANGED <<shared, args, fn, key, oldest, notified, sweeper, now, crashed>>

\* Lines 105-111 and 126: is a computation of the key under way?  If one
\* is, cond[key].L.Lock(), the waiter is counted and cached.m released; a
\* caller that finds that mutex locked blocks at line 108 with cached.m held.
CheckInflight(c) ==
    /\ Running
    /\ pc[c] = "check"
    /\ m = {}
    /\ IF key[c] \notin inflight
       THEN /\ pc' = [pc EXCEPT ![c] = "create"]
            /\ UNCHANGED <<m, locked, waits>>
       ELSE IF cond[key[c]] \in locked
       THEN /\ pc' = [pc EXCEPT ![c] = "lockL"]
            /\ m' = {c}
            /\ UNCHANGED <<locked, waits>>
       ELSE /\ pc' = [pc EXCEPT ![c] = "wait"]
            /\ locked' = locked \cup {cond[key[c]]}
            /\ waits' = [waits EXCEPT ![key[c]] = @ + 1]
            /\ UNCHANGED m
    /\ UNCHANGED <<cache, entry, inflight, cond, args, fn, key, oldest, result, ret, waitOn,
                   notified, sweeper, now, crashed, history>>

\* Lines 108-111, for the caller blocked at line 108: the mutex is free
\* again.
LockCond(c) ==
    /\ Running
    /\ pc[c] = "lockL"
    /\ m = {c}
    /\ cond[key[c]] \notin locked
    /\ locked' = locked \cup {cond[key[c]]}
    /\ waits' = [waits EXCEPT ![key[c]] = @ + 1]
    /\ m' = {}
    /\ pc' = [pc EXCEPT ![c] = "wait"]
    /\ UNCHANGED <<cache, entry, inflight, cond, args, fn, key, oldest, result, ret, waitOn,
                   notified, sweeper, now, crashed, history>>

\* Line 112, first half: cond[key] is looked up again, without cached.m;
\* Wait puts the caller on that Cond's notify list and unlocks its L.
\* Unlocking a mutex that is not locked is a fatal error of the runtime.
CondWait(c) ==
    /\ Running
    /\ pc[c] = "wait"
    /\ IF cond[key[c]] \in locked
       THEN /\ locked' = locked \ {cond[key[c]]}
            /\ waitOn' = [waitOn EXCEPT ![c] = cond[key[c]]]
            /\ notified' = [notified EXCEPT ![c] = FALSE]
            /\ pc' = [pc EXCEPT ![c] = "suspended"]
            /\ UNCHANGED crashed
       ELSE /\ crashed' = TRUE
            /\ UNCHANGED <<locked, waitOn, notified, pc>>
    /\ UNCHANGED <<cache, entry, inflight, cond, waits, m, args, fn, key, oldest,
                   result, ret, sweeper, now, history>>

\* Line 112, second half: a released waiter locks the L of the Cond it
\* waited on before Wait returns.
WakeLock(c) ==
    /\ Running
    /\ pc[c] = "suspended"
    /\ notified[c]
    /\ waitOn[c] \notin locked
    /\ locked' = locked \cup {waitOn[c]}
    /\ notified' = [notified EXCEPT ![c] = FALSE]
    /\ pc' = [pc EXCEPT ![c] = "unlockL"]
    /\ UNCHANGED <<cache, entry, inflight, cond, waits, m, args, fn, key, oldest,
                   result, ret, waitOn, sweeper, now, crashed, history>>

\* Line 113: cond[key] is looked up a third time, without cached.m, and
\* its L unlocked.
UnlockCond(c) ==
    /\ Running
    /\ pc[c] = "unlockL"
    /\ IF cond[key[c]] \in locked
       THEN /\ locked' = locked \ {cond[key[c]]}
            /\ pc' = [pc EXCEPT ![c] = "reread"]
            /\ UNCHANGED crashed
       ELSE /\ crashed' = TRUE
            /\ UNCHANGED <<locked, pc>>
    /\ UNCHANGED <<cache, entry, inflight, cond, waits, m, args, fn, key, oldest,
                   result, ret, waitOn, notified, sweeper, now, history>>

\* Lines 114-124 with a waiter that, finding nothing, goes on to line 128
\* and computes the value itself.
RereadRecompute(c) ==
    /\ Running
    /\ pc[c] = "reread"
    /\ m = {}
    /\ IF key[c] \in DOMAIN cache
       THEN Return(c, cache[key[c]])
       ELSE /\ pc' = [pc EXCEPT ![c] = "create"]
            /\ UNCHANGED <<ret, result, waitOn, history>>
    /\ UNCHANGED <<shared, args, fn, key, oldest, notified, sweeper, now, crashed>>

\* Lines 114-124: the woken waiter reads the store again and returns what
\* it finds, or nil.
Reread(c) ==
    /\ Running
    /\ pc[c] = "reread"
    /\ m = {}
    /\ IF key[c] \in DOMAIN cache
       THEN Return(c, cache[key[c]])
       ELSE Return(c, Nil)
    /\ UNCHANGED <<shared, args, fn, key, oldest, notified, sweeper, now, crashed>>

\* Lines 128-133 without the Unlock of line 133: cached.m stays with the
\* caller while it runs the underlying function (as with the deferred Unlock
\* of the version at lines 162-293).
CreateKeepingLock(c) ==
    /\ Running
    /\ pc[c] = "create"
    /\ m = {}
    /\ inflight' = inflight \cup {key[c]}
    /\ cond' = Put(cond, key[c], NewObject)
    /\ m' = {c}
    /\ pc' = [pc EXCEPT ![c] = "calling"]
    /\ UNCHANGED <<cache, entry, waits, locked, args, fn, key, oldest, result, ret, waitOn,
                   notified, sweeper, now, crashed, history>>

\* Lines 128-133: the caller becomes a computer: marker, mutex and Cond.
Create(c) ==
    /\ Running
    /\ pc[c] = "create"
    /\ m = {}
    /\ inflight' = inflight \cup {key[c]}
    /\ cond' = Put(cond, key[c], NewObject)
    /\ pc' = [pc EXCEPT ![c] = "calling"]
    /\ UNCHANGED <<cache, entry, waits, m, locked, args, fn, key, oldest, result, ret, waitOn,
                   notified, sweeper, now, crashed, history>>

\* Lines 112-113 read the map cached.cond without cached.m while line 132
\* writes it: the runtime may stop the process (concurrent map read and map
\* write).
MapRace(c, d) ==
    /\ Running
    /\ pc[c] = "create"
    /\ m = {}
    /\ pc[d] \in {"wait", "unlockL"}
    /\ crashed' = TRUE
    /\ UNCHANGED <<shared, local, sweeper, now, history>>

\* Lines 135-138: result := f(args...), with no lock held.
Call(c) ==
    /\ Running
    /\ pc[c] = "calling"
    /\ calls' = [calls EXCEPT ![key[c]] = @ + 1]
    /\ ran' = [ran EXCEPT ![c] = @ + 1]
    /\ result' = [result EXCEPT ![c] = Value(fn[c], args[c], calls[key[c]] + 1)]
    /\ pc' = [pc EXCEPT ![c] = "store"]
    /\ UNCHANGED <<shared, args, fn, key, oldest, ret, waitOn, notified, sweeper, now, crashed,
                   started, seen, lost, used, solo, panics>>

\* Line 137, f panics: the wrapped function has no defer and no recover, so
\* the panic leaves it at once and lines 138-158 do not run.  The caller of
\* the wrapped function recovers (if it does not, the process ends).
Panic(c) ==
    /\ Running
    /\ pc[c] = "calling"
    /\ panics < MaxPanics
    /\ panics' = panics + 1
    /\ calls' = [calls EXCEPT ![key[c]] = @ + 1]
    /\ ran' = [ran EXCEPT ![c] = @ + 1]
    /\ pc' = [pc EXCEPT ![c] = "done"]
    /\ ret' = [ret EXCEPT ![c] = Panicked]
    /\ UNCHANGED <<shared, args, fn, key, oldest, result, waitOn, notified, sweeper, now,
                   crashed, started, seen, lost, used, solo>>

\* Lines 140-143 without line 142: the result is stored without its time.
StoreWithoutTime(c) ==
    /\ Running
    /\ pc[c] = "store"
    /\ m = {}
    /\ cache' = Put(cache, key[c], result[c])
    /\ pc' = [pc EXCEPT ![c] = "notify"]
    /\ UNCHANGED <<entry, inflight, cond, waits, m, locked, args, fn, key, oldest, result,
                   ret, waitOn, notified, sweeper, now, crashed, history>>

\* Lines 140-143: the result and its time of insertion are stored.
Store(c) ==
    /\ Running
    /\ pc[c] = "store"
    /\ m = {}
    /\ cache' = Put(cache, key[c], result[c])
    /\ entry' = Put(entry, key[c], now)
    /\ pc' = [pc EXCEPT ![c] = "notify"]
    /\ UNCHANGED <<inflight, cond, waits, m, locked, args, fn, key, oldest, result, ret,
                   waitOn, notified, sweeper, now, crashed, history>>

\* The callers a Broadcast on Cond x releases: those on its notify list.
Released(x) ==
    [d \in Callers |-> notified[d] \/ (pc[d] = "suspended" /\ waitOn[d] = x)]

\* Lines 148-153: cond[key].L.Lock(), Broadcast, L.Unlock(), the marker is
\* deleted.
Wake(c) ==
    /\ notified' = Released(cond[key[c]])
    /\ inflight' = inflight \ {key[c]}

\* Lines 145-158: with no marker left the computer returns; with one it
\* wakes the waiters, deletes the marker and returns.  A computer that
\* finds the Cond's mutex locked blocks at line 148 with cached.m held.
Notify(c) ==
    /\ Running
    /\ pc[c] = "notify"
    /\ m = {}
    /\ IF key[c] \notin inflight
       THEN /\ Return(c, result[c])
            /\ UNCHANGED <<m, notified, inflight>>
       ELSE IF cond[key[c]] \in locked
       THEN /\ pc' = [pc EXCEPT ![c] = "bcastLock"]
            /\ m' = {c}
            /\ UNCHANGED <<ret, result, waitOn, notified, inflight, history>>
       ELSE /\ Wake(c)
            /\ Return(c, result[c])
            /\ UNCHANGED m
    /\ UNCHANGED <<cache, entry, cond, waits, locked, args, fn, key, oldest, sweeper, now,
                   crashed>>

\* Lines 148-158, for the computer blocked at line 148: the mutex is free
\* again.
Broadcast(c) ==
    /\ Running
    /\ pc[c] = "bcastLock"
    /\ m = {c}
    /\ cond[key[c]] \notin locked
    /\ Wake(c)
    /\ m' = {}
    /\ Return(c, result[c])
    /\ UNCHANGED <<cache, entry, cond, waits, locked, args, fn, key, oldest, sweeper, now,
                   crashed>>

\* The caller has its result; the model forgets the finished call.  (No
\* other step is taken first: this one changes nothing the others read.)
Leave(c) ==
    /\ ~crashed
    /\ pc[c] = "done"
    /\ pc' = [pc EXCEPT ![c] = "out"]
    /\ args' = [args EXCEPT ![c] = <<>>]
    /\ fn' = [fn EXCEPT ![c] = 0]
    /\ key' = [key EXCEPT ![c] = ""]
    /\ oldest' = [oldest EXCEPT ![c] = NoEviction]
    /\ solo' = IF solo = c THEN 0 ELSE solo
    /\ ret' = [ret EXCEPT ![c] = NoResult]
    /\ ran' = [ran EXCEPT ![c] = 0]
    /\ seen' = [seen EXCEPT ![c] = NoResult]
    /\ lost' = [lost EXCEPT ![c] = FALSE]
    /\ UNCHANGED <<shared, result, waitOn, notified, sweeper, now, crashed,
                   calls, started, used, panics>>

\* The test of line 61 against the sum of the two periods.
ExpiredLate(e, t) ==
    {k \in DOMAIN e : t - e[k] > CacheExpiryTime + CacheExpirySleepTime}

\* The test of line 61 with >= in the place of >.
ExpiredInclusive(e, t) == {k \in DOMAIN e : t - e[k] >= CacheExpiryTime}

\* ------------------------------------------------------------- the sweeper
\* Lines 60-65: the keys a sweep at time t deletes.
Expired(e, t) == {k \in DOMAIN e : t - e[k] > CacheExpiryTime}

\* Lines 54-58: time.Sleep is over and the context is found cancelled: the
\* goroutine ends without touching the store.
SweeperStop ==
    /\ Running
    /\ pcS = "sleeping"
    /\ now >= wakeAt
    /\ cancelled
    /\ pcS' = "stopped"
    /\ UNCHANGED <<shared, local, wakeAt, cancelled, now, crashed, history>>

\* Lines 54-66 without the test of lines 56-58 (the sweeper of
\* src/unnamed/part_000, which takes no context).
SweepWithoutContext ==
    /\ Running
    /\ pcS = "sleeping"
    /\ now >= wakeAt
    /\ m = {}
    /\ cache' = Without(cache, Expired(entry, now))
    /\ entry' = Without(entry, Expired(entry, now))
    /\ lost' = Lose(0, Expired(entry, now))
    /\ wakeAt' = now + CacheExpirySleepTime
    /\ UNCHANGED <<inflight, cond, waits, m, locked, local, pcS, cancelled,
                   now, crashed, calls, started, ran, seen, used, solo, panics>>

\* Lines 54-66 with the sweep of src/unnamed/part_000, lines 41-47, which
\* deletes the in-flight marker of an expired key too.
SweepDeletingMarkers ==
    /\ Running
    /\ pcS = "sleeping"
    /\ now >= wakeAt
    /\ ~cancelled
    /\ m = {}
    /\ cache' = Without(cache, Expired(entry, now))
    /\ entry' = Without(entry, Expired(entry, now))
    /\ inflight' = inflight \ Expired(entry, now)
    /\ lost' = Lose(0, Expired(entry, now))
    /\ wakeAt' = now + CacheExpirySleepTime
    /\ UNCHANGED <<cond, waits, m, locked, local, pcS, cancelled,
                   now, crashed, calls, started, ran, seen, used, solo, panics>>

\* Lines 54-66: time.Sleep is over, the context is live: one sweep under
\* cached.m, and the next Sleep begins.
Sweep ==
    /\ Running
    /\ pcS = "sleeping"
    /\ now >= wakeAt
    /\ ~cancelled
    /\ m = {}
    /\ cache' = Without(cache, Expired(entry, now))
    /\ entry' = Without(entry, Expired(entry, now))
    /\ lost' = Lose(0, Expired(entry, now))
    /\ wakeAt' = now + CacheExpirySleepTime
    /\ UNCHANGED <<inflight, cond, waits, m, locked, local, pcS, cancelled,
                   now, crashed, calls, started, ran, seen, used, solo, panics>>

\* The owner of the context cancels it (the tests' defer cancel()).  The
\* sweeper reads the context only at line 56, so a cancellation at any time
\* of its Sleep is the same as one at the end of it.
Cancel ==
    /\ Running
    /\ pcS = "sleeping"
    /\ now >= wakeAt
    /\ ~cancelled
    /\ cancelled' = TRUE
    /\ UNCHANGED <<shared, local, pcS, wakeAt, now, crashed, history>>

\* One unit of time passes.  It cannot pass the end of the sweeper's Sleep,
\* nor while a caller or the sweeper is in or between lock-protected regions.
Tick ==
    /\ Running
    /\ now < MaxTime
    /\ \A c \in Callers : pc[c] \in TimedPcs
    /\ \/ pcS = "stopped"
       \/ pcS = "sleeping" /\ now < wakeAt
    /\ now' = now + 1
    /\ UNCHANGED <<shared, local, sweeper, crashed, history>>

Next ==
    \/ \E c \in Callers, i \in Inputs : Capacity(c, i[1], i[2])
    \/ \E c \in Callers : Memoization(c)
    \/ \E c \in Callers : CheckInflight(c)
    \/ \E c \in Callers : LockCond(c)
    \/ \E c \in Callers : CondWait(c)
    \/ \E c \in Callers : WakeLock(c)
    \/ \E c \in Callers : UnlockCond(c)
    \/ \E c \in Callers : Reread(c)
    \/ \E c \in Callers : Create(c)
    \/ \E c, d \in Callers : MapRace(c, d)
    \/ \E c \in Callers : Call(c)
    \/ \E c \in Callers : Panic(c)
    \/ \E c \in Callers : Store(c)
    \/ \E c \in Callers : Notify(c)
    \/ \E c \in Callers : Broadcast(c)
    \/ \E c \in Callers : Leave(c)
    \/ SweeperStop
    \/ Sweep
    \/ Cancel
    \/ Tick

Spec == Init /\ [][Next]_vars

\* ------------------------------------------------------------------ claims
\* The caller has run the underlying function and not returned yet.
Computing(c) == pc[c] \in {"calling", "store", "notify", "bcastLock"}

\* The call of c began with its key absent from the store and nothing
\* was evicted or expired from under it.
Undisturbed(c) == pc[c] # "out" /\ seen[c] = NoResult /\ ~lost[c]

\* C1: callers that call one wrapper concurrently with the same tuple, not
\* cached beforehand and with no eviction or expiry during their calls, run the
\* underlying function once between them, and the one that returns gets the
\* result the other computed.
C1_Deduplication ==
    \A c, d \in Callers :
        (/\ c # d
         /\ args[c] = args[d] /\ fn[c] = fn[d]
         /\ Undisturbed(c) /\ Undisturbed(d))
            => /\ ran[c] + ran[d] <= 1
               /\ (pc[c] = "done" /\ result[d] # NoResult) => ret[c] = result[d]

\* C2: a call with a tuple whose result an earlier call with that tuple
\* stored, with no other call under way and no eviction or expiry by others,
\* returns that stored result and does not run the underlying function.
C2_IdempotentMemoization ==
    \A c \in Callers :
        (/\ pc[c] = "done"
         /\ solo = c
         /\ seen[c].args = args[c] /\ seen[c].fn = fn[c]
         /\ ~lost[c])
            => (ret[c] = seen[c] /\ ran[c] = 0)

\* C3: the store never holds more than MaxCacheSize entries.
C3_CapacityBound == Cardinality(DOMAIN cache) <= MaxCacheSize

\* The step with which caller c begins a call (lines 76-94).
Begins(c) == pc[c] = "out" /\ pc'[c] = "memo"

\* The store holds exactly MaxCacheSize entries, inserted at pairwise
\* distinct times.
FullDistinct ==
    /\ Cardinality(DOMAIN cache) = MaxCacheSize
    /\ DOMAIN entry = DOMAIN cache
    /\ \A j, k \in DOMAIN entry : j # k => entry[j] # entry[k]

C6_DistinctKeysIndependent ==
    \A c \in Callers :
        pc[c] = "done" => (ret[c] \in {Nil, Panicked} \/ ret[c].args = args[c])

\* C6 as amended: a call returns nil or a value the underlying function
\* produced, in one of its runs for the call's key, for a tuple that %v
\* prints as it prints the call's tuple.
C6_DistinctFingerprintsIndependent ==
    \A c \in Callers :
        pc[c] = "done" =>
            \/ ret[c] \in {Nil, Panicked}
            \/ /\ ret[c].args \in ArgTuples
               /\ Sprintf(ret[c].args) = Sprintf(args[c])
               /\ ret[c].gen \in 1..calls[key[c]]

\* A call returns a value computed for another tuple with the same print.
C6_Witness ==
    \E c \in Callers :
        pc[c] = "done" /\ ret[c] \notin {Nil, Panicked} /\ ret[c].args # args[c]

\* C7: a woken waiter's next step is to return, without running the
\* underlying function: what the store holds for its key, else nil; and no
\* call runs the underlying function more than once.
C7_UnavailableNotRecomputed ==
    /\ [][\A c \in Callers :
            (pc[c] = "reread" /\ pc'[c] # "reread")
                => /\ pc'[c] = "done"
                   /\ ran'[c] = 0
                   /\ calls' = calls
                   /\ ret'[c] = IF key[c] \in DOMAIN cache
                                THEN cache[key[c]] ELSE Nil]_vars
    /\ [](\A c \in Callers :
            /\ ran[c] <= 1
            /\ pc[c] \in {"lockL", "wait", "suspended", "unlockL", "reread"}
                 => ran[c] = 0)

\* A waiter found its key gone from the store and returned nil.
C7_Witness ==
    \E c \in Callers : pc[c] = "done" /\ ret[c] = Nil /\ ran[c] = 0

\* C8: no caller holds cached.m while it is inside the underlying function.
C8_LockFreeDuringCall ==
    \A c \in Callers : pc[c] = "calling" => c \notin m

\* While c is inside the underlying function, d has computed and stored
\* another key and returned (its last step took cached.m).
C8_Witness ==
    \E c, d \in Callers :
        /\ pc[c] = "calling"
        /\ pc[d] = "done"
        /\ key[d] # key[c]
        /\ ran[d] = 1
        /\ key[d] \in DOMAIN cache

\* C9 as claimed, in the form a finite run refutes: a caller suspended in
\* Wait and not yet released has a caller of its key that has still to
\* broadcast (without one nothing will ever release it).
C9_WaitersReleased ==
    \A c \in Callers :
        (pc[c] = "suspended" /\ ~notified[c] /\ ~crashed)
            => \E d \in Callers : Computing(d) /\ key[d] = key[c]

\* A step of the sweeper goroutine.
SweeperSteps == pcS' # pcS \/ wakeAt' # wakeAt

\* C10: with the context cancelled the sweeper's next step ends it and
\* removes no entry, time does not pass its wake-up before that, and a
\* sweeper that has ended found the context cancelled.
C10_SweeperCancellation ==
    /\ [][(cancelled /\ SweeperSteps)
            => (pcS' = "stopped" /\ UNCHANGED <<cache, entry>>)]_vars
    /\ [][pcS = "stopped" => pcS' = "stopped"]_vars
    /\ [](pcS = "stopped" => cancelled)
    /\ []((cancelled /\ pcS # "stopped") => now <= wakeAt)

\* The sweeper has ended and left in the store an entry older than
\* CacheExpiryTime + CacheExpirySleepTime.
C10_Witness ==
    /\ pcS = "stopped"
    /\ \E k \in DOMAIN cache :
         now > entry[k] + CacheExpiryTime + CacheExpirySleepTime

\* C11 as claimed, in the form a finite run refutes: a caller suspended on
\* the Cond its key has now, with the key's marker present, has a caller of
\* its key that has still to broadcast.
C11_PanicContained ==
    \A c \in Callers :
        (/\ pc[c] = "suspended"
         /\ ~notified[c]
         /\ ~crashed
         /\ key[c] \in inflight
         /\ cond[key[c]] = waitOn[c])
            => \E d \in Callers : Computing(d) /\ key[d] = key[c]

\* C12: no two callers are at the same time computers of one key (between
\* the creation of the marker at lines 129-133 and its deletion at line 152).
C12_SingleComputerPerKey ==
    \A c, d \in Callers :
        (c # d /\ Computing(c) /\ Computing(d)) => key[c] # key[d]

\* C13: the first region of a call whose key is stored leaves cache and
\* entry as they are.
C13_NoEvictionOnHit ==
    [][\A c \in Callers :
          (Begins(c) /\ key'[c] \in DOMAIN cache)
              => (cache' = cache /\ entry' = entry)]_vars

\* The caller is past its capacity check and has still to insert.
Admitting(c) == pc[c] \in {"create", "calling", "store"}

\* A step of another caller than c (c stays where it is, the sweeper too).
OthersStep(c) == pc'[c] = pc[c] /\ pc' # pc /\ ~SweeperSteps

\* C14: the store never holds more than MaxCacheSize + 1 entries, and no
\* step of another caller changes the number of entries between a caller's
\* capacity check and its insert.
C14_StrictAdmission ==
    /\ [](Cardinality(DOMAIN cache) <= MaxCacheSize + 1)
    /\ [][\A c \in Callers :
            (Admitting(c) /\ OthersStep(c))
                => Cardinality(DOMAIN cache') = Cardinality(DOMAIN cache)]_vars

\* C15: when a computer stores result r, every other caller that has
\* computed for the same argument tuple and not yet returned (it returns
\* its local result, line 158) holds that same r.
C15_OrderingGuarantee ==
    [][\A c, d \in Callers :
          (/\ c # d
           /\ pc[c] = "store" /\ pc'[c] = "notify"
           /\ args[d] = args[c] /\ fn[d] = fn[c]
           /\ pc[d] \in {"store", "notify", "bcastLock"})
              => result[d] = result[c]]_vars

\* The positions from which a caller's next step begins by taking cached.m
\* or is taken with cached.m held.
UnderLock(c) ==
    pc[c] \in {"out", "memo", "check", "lockL", "reread", "create", "store",
               "notify", "bcastLock"}

\* The caller's step reads or writes one of the tables of FunctionCache:
\* every step but the call of f, the wake-up inside Wait (which has the
\* Cond already) and the return to the caller's caller.
AccessesTables(c) ==
    /\ pc[c] \notin {"calling", "suspended", "done"}
    /\ pc'[c] # pc[c] \/ (crashed' /\ ~crashed /\ pc[c] \in {"wait", "unlockL"})

\* C16: a caller reads and writes the tables only with cached.m held.
C16_TablesUnderLock ==
    [][\A c \in Callers : AccessesTables(c) => UnderLock(c)]_vars

\* A sweep: the sweeper's step that begins its next Sleep.
Sweeps == wakeAt' # wakeAt

\* C17: a sweep removes from cache and entry exactly the keys whose age is
\* greater than CacheExpiryTime; every other entry, one of that very age
\* included, stays as it was.
C17_SweepRemovesExactlyExpired ==
    [][Sweeps =>
          LET old == {k \in DOMAIN entry : now - entry[k] > CacheExpiryTime} IN
          /\ DOMAIN cache' = DOMAIN cache \ old
          /\ DOMAIN entry' = DOMAIN entry \ old
          /\ \A k \in DOMAIN cache' : cache'[k] = cache[k]
          /\ \A k \in DOMAIN entry' : entry'[k] = entry[k]]_vars

\* Two keys were computed and stored, in two calls that evicted nothing; a
\* sweep has just removed one and kept the other, whose age is
\* CacheExpiryTime.
C17_Witness ==
    /\ pcS = "sleeping"
    /\ wakeAt = now + CacheExpirySleepTime
    /\ started = MaxCacheSize
    /\ panics = 0
    /\ \E j, k \in Keys :
         /\ j # k
         /\ calls[j] = 1 /\ calls[k] = 1
         /\ j \notin DOMAIN cache /\ j \notin DOMAIN entry
         /\ k \in DOMAIN cache
         /\ now - entry[k] = CacheExpiryTime

\* C18: a step of the sweeper leaves the markers, the Conds and their
\* mutexes, the waiter counters, cached.m and every caller as they are.
C18_SweeperFrame ==
    [][SweeperSteps =>
          UNCHANGED <<inflight, cond, waits, locked, m, local, crashed>>]_vars

\* A sweep has just removed the one entry stored so far while the second
\* call is computing and the third waits for it.
C18_Witness ==
    /\ pcS = "sleeping"
    /\ wakeAt = now + CacheExpirySleepTime
    /\ now > CacheExpiryTime
    /\ cache = <<>>
    /\ \E j \in Keys : calls[j] = 1 /\ \A k \in Keys \ {j} : calls[k] = 0
    /\ \E c, d \in Callers :
         /\ pc[c] = "calling"
         /\ key[c] \in inflight
         /\ pc[d] = "suspended" /\ ~notified[d]
         /\ key[d] = key[c] /\ waitOn[d] = cond[key[c]]

\* C19: a marker is created by a caller that found neither a stored result
\* nor a marker for its key (lines 98 and 107); a marker is present only
\* while some caller is computing its key; and with every caller outside
\* the wrapped function and no panic there is no marker.
C19_MarkerLifecycle ==
    /\ [][\A c \in Callers :
            /\ (pc'[c] = "check" /\ pc[c] # "check")
                 => (pc[c] = "memo" /\ key[c] \notin DOMAIN cache)
            /\ (pc'[c] = "create" /\ pc[c] # "create")
                 => (pc[c] = "check" /\ key[c] \notin inflight)]_vars
    /\ [][inflight' # inflight =>
            \E c \in Callers :
               \/ pc[c] = "create" /\ inflight' = inflight \cup {key[c]}
               \/ /\ pc[c] \in {"notify", "bcastLock"}
                  /\ inflight' = inflight \ {key[c]}]_vars
    /\ [](\A k \in inflight : \E c \in Callers : Computing(c) /\ key[c] = k)
    /\ []((panics = 0 /\ \A c \in Callers : pc[c] = "out") => inflight = {})

\* A call that overlapped no other call returned the stored value without
\* running the underlying function: a hit.
Hit(c) ==
    /\ pc[c] = "done"
    /\ solo = c
    /\ ran[c] = 0
    /\ key[c] \in DOMAIN cache
    /\ ret[c] = cache[key[c]]

\* The lookup of lines 97-103 returns what the store holds for the key,
\* of whatever age, and changes nothing.
ReadIgnoresAge ==
    [][\A c \in Callers :
          (pc[c] = "memo" /\ pc'[c] # "memo" /\ key[c] \in DOMAIN cache)
              => /\ pc'[c] = "done"
                 /\ ret'[c] = cache[key[c]]
                 /\ UNCHANGED <<cache, entry>>]_vars

C21_WrappersIndependent ==
    \A c \in Callers :
        (pc[c] = "done" /\ ret[c] \notin {Nil, Panicked}) => ret[c].fn = fn[c]

\* C22: the Cond whose mutex a waiter is about to unlock in Wait is one
\* whose mutex is locked, and the Cond a waiter is suspended on, or whose
\* mutex it is about to unlock at line 113, is the one the table holds for
\* its key.
C22_SameCondObject ==
    \A c \in Callers :
        /\ pc[c] = "wait" => cond[key[c]] \in locked
        /\ pc[c] \in {"suspended", "unlockL"} => waitOn[c] = cond[key[c]]

\* C23: cache and entry have the same keys.
C23_SameKeySets == DOMAIN cache = DOMAIN entry

\* The third call evicted one of the two entries at its start, a sweep
\* removed the other while the call was inside the underlying function, and
\* the call has stored its own: inserts, an eviction and a sweep.
C23_Witness ==
    \E c \in Callers :
        /\ pc[c] = "notify"
        /\ started = MaxCacheSize + 1
        /\ oldest[c] # NoEviction
        /\ DOMAIN cache = {key[c]}
        /\ DOMAIN entry = {key[c]}
        /\ \E k \in Keys \ {key[c], oldest[c].key} : calls[k] = 1

====
